---- MODULE Spec2Model ----
(***************************************************************************)
(* Model of commitNumber.py: the git object parser (GitParser), the blob   *)
(* resolver (blobForCommit), the order reconstruction (orderedCommits) and *)
(* the module-level main loop.                                             *)
(*                                                                         *)
(* A decompressed object is a sequence of lexemes.  A lexeme is a string:  *)
(* either one printable character ("1", "a", ".", " "), or one of the      *)
(* fixed texts of the three formats ("blob ", "tree ", " commit", ...),    *)
(* or one non-printable byte ("NUL", "LF", "xaa", "xbb").  A hash, a       *)
(* decimal number and a name are sequences of one-character lexemes.       *)
(***************************************************************************)
EXTENDS Integers, Sequences, FiniteSets, TLC

VARIABLES blobs, trees, commits, pc, nread, diag, summary, table, err

vars == <<blobs, trees, commits, pc, nread, diag, summary, table, err>>

(***************************************************************************)
(* Bounds of the model.                                                    *)
(***************************************************************************)
\* The object directory holds at most MaxRecords files.
MaxRecords == 7

(***************************************************************************)
(* Values.                                                                 *)
(***************************************************************************)
\* Python's None.  A captured group is never empty, so the empty sequence
\* is distinct from every captured hash and every captured number.
None == <<>>

\* A dict: its keys in insertion order, and its values.
EmptyDict == [keys |-> <<>>, val |-> <<>>]

Range(s) == {s[i] : i \in DOMAIN s}

Has(d, k) == k \in Range(d.keys)

Get(d, k) == d.val[CHOOSE i \in DOMAIN d.keys : d.keys[i] = k]

\* d[k] = v: a new key goes last, a known key keeps its place.
Put(d, k, v) ==
    IF Has(d, k)
    THEN [keys |-> d.keys,
          val  |-> [i \in DOMAIN d.val |-> IF d.keys[i] = k THEN v ELSE d.val[i]]]
    ELSE [keys |-> Append(d.keys, k), val |-> Append(d.val, v)]

(***************************************************************************)
(* Character classes of the regular expressions.                           *)
(***************************************************************************)
Digits == {"0", "1", "2", "3", "4", "5", "6", "7", "8", "9"}

IsDigit(c) == c \in Digits

\* [0-9a-f]
IsHex(c) == c \in Digits \cup {"a", "b", "c", "d", "e", "f"}

\* The letters that occur in the modelled records.
Letters == {"a", "b", "c", "d", "e", "f", "h", "n", "r", "s", "t", "B"}

\* [A-Za-z ]
IsNameChar(c) == c \in Letters \cup {" "}

\* \w
IsWord(c) == c \in Letters \cup Digits \cup {"_"}

\* What "." matches: one character of the repr text.  A non-printable byte
\* is written with an escape of several characters, a fixed text has several.
IsOneChar(c) == c \in Letters \cup Digits \cup {"_", " ", ".", "!", "?"}

\* int(s) of a decimal string.
RECURSIVE ToInt(_)
ToInt(ds) ==
    IF ds = <<>> THEN 0
    ELSE LET d == ds[Len(ds)]
             v == CASE d = "0" -> 0 [] d = "1" -> 1 [] d = "2" -> 2 [] d = "3" -> 3
                    [] d = "4" -> 4 [] d = "5" -> 5 [] d = "6" -> 6 [] d = "7" -> 7
                    [] d = "8" -> 8 [] d = "9" -> 9
         IN  10 * ToInt(SubSeq(ds, 1, Len(ds) - 1)) + v

DigitChar(n) ==
    CASE n = 0 -> "0" [] n = 1 -> "1" [] n = 2 -> "2" [] n = 3 -> "3" [] n = 4 -> "4"
      [] n = 5 -> "5" [] n = 6 -> "6" [] n = 7 -> "7" [] n = 8 -> "8" [] n = 9 -> "9"

\* str(n) of a non-negative integer.
RECURSIVE FormatInt(_)
FormatInt(n) ==
    IF n < 10 THEN <<DigitChar(n)>>
    ELSE Append(FormatInt(n \div 10), DigitChar(n % 10))

(***************************************************************************)
(* Matching.  A position is an index into the lexeme sequence; 0 is "no    *)
(* match".                                                                 *)
(***************************************************************************)
\* The literal lex at position i.
Lit(s, i, lex) == IF i >= 1 /\ i <= Len(s) /\ s[i] = lex THEN i + 1 ELSE 0

\* The end of the longest run of digits from position i, i itself if none.
RECURSIVE DigitRunEnd(_, _)
DigitRunEnd(s, i) ==
    IF i >= 1 /\ i <= Len(s) /\ IsDigit(s[i]) THEN DigitRunEnd(s, i + 1) ELSE i

RECURSIVE HexRunEnd(_, _)
HexRunEnd(s, i) ==
    IF i >= 1 /\ i <= Len(s) /\ IsHex(s[i]) THEN HexRunEnd(s, i + 1) ELSE i

RECURSIVE NameRunEnd(_, _)
NameRunEnd(s, i) ==
    IF i >= 1 /\ i <= Len(s) /\ IsNameChar(s[i]) THEN NameRunEnd(s, i + 1) ELSE i

\* ([0-9]+) at position i: the position after it.
Number(s, i) == IF i = 0 THEN 0 ELSE
    LET j == DigitRunEnd(s, i) IN IF j > i THEN j ELSE 0

\* ([0-9a-f]+) at position i.
Hash(s, i) == IF i = 0 THEN 0 ELSE
    LET j == HexRunEnd(s, i) IN IF j > i THEN j ELSE 0

\* " ([A-Za-z ]+) " at position i, before a text that is no name character:
\* the greedy run gives back its last character, which has to be the space.
Name(s, i) ==
    LET a == Lit(s, i, " ")
        j == IF a = 0 THEN 0 ELSE NameRunEnd(s, a)
    IN  IF a # 0 /\ j >= a + 2 /\ s[j - 1] = " " THEN j ELSE 0

\* "<> ([0-9]+) \+0000" at position i.
Time(s, i) == Lit(s, Number(s, Lit(s, i, "<> ")), " +0000")

(***************************************************************************)
(* _blob_re                                                                *)
(***************************************************************************)
\* Positions of a match of _blob_re, or 0 where it fails.
BlobNumEnd(s) == Number(s, Lit(s, 1, "blob "))

BlobOrderStart(s) ==
    Lit(s, Lit(s, BlobNumEnd(s), "NUL"), "This is the README in the ")

\* After the template: digits, two word characters, " commit", one character,
\* and the end of the text.  The end fixes how many digits the group takes.
BlobOrderEnd(s) ==
    LET a == BlobOrderStart(s)
        e == Len(s) - 3
    IN  IF /\ a # 0
           /\ e > a
           /\ \A i \in a..(e - 1) : IsDigit(s[i])
           /\ IsWord(s[e]) /\ IsWord(s[e + 1])
           /\ s[e + 2] = " commit"
           /\ IsOneChar(s[e + 3])
        THEN e ELSE 0

MatchBlob(s) == BlobOrderEnd(s) # 0

\* A slip: the two groups taken for each other.
BlobOf_GroupsSwapped(s) ==
    [num          |-> SubSeq(s, BlobOrderStart(s), BlobOrderEnd(s) - 1),
     commit_order |-> SubSeq(s, 2, BlobNumEnd(s) - 1)]

\* GitBlob(num=match.group(1), commit_order=match.group(2))
BlobOf(s) ==
    [num          |-> SubSeq(s, 2, BlobNumEnd(s) - 1),
     commit_order |-> SubSeq(s, BlobOrderStart(s), BlobOrderEnd(s) - 1)]

(***************************************************************************)
(* _commit_re                                                              *)
(***************************************************************************)
CommitNumEnd(s) == Number(s, Lit(s, 1, "commit "))

CommitTreeStart(s) == Lit(s, Lit(s, CommitNumEnd(s), "NUL"), "tree ")

CommitTreeEnd(s) == Hash(s, CommitTreeStart(s))

\* The position after the tree line.
CommitAfterTree(s) == Lit(s, CommitTreeEnd(s), "LF")

\* (parent ([0-9a-f]+)\n)? : the position after the parent line where there
\* is a whole one, the position after the tree line otherwise.
CommitParentEnd(s) == Hash(s, Lit(s, CommitAfterTree(s), "parent "))

CommitHasParent(s) == Lit(s, CommitParentEnd(s), "LF") # 0

CommitAuthorStart(s) ==
    IF CommitHasParent(s) THEN Lit(s, CommitParentEnd(s), "LF") ELSE CommitAfterTree(s)

CommitAuthorNameEnd(s) == Name(s, Lit(s, CommitAuthorStart(s), "author"))

CommitAuthorEnd(s) == Time(s, CommitAuthorNameEnd(s))

CommitCommitterNameEnd(s) ==
    Name(s, Lit(s, Lit(s, CommitAuthorEnd(s), "LF"), "committer"))

CommitCommitterEnd(s) == Time(s, CommitCommitterNameEnd(s))

\* \n\ncommit\n$
CommitEnd(s) ==
    Lit(s, Lit(s, Lit(s, Lit(s, CommitCommitterEnd(s), "LF"), "LF"), "commit"), "LF")

MatchCommit(s) == CommitEnd(s) = Len(s) + 1

\* GitCommit(num=group(1), tree_id=group(2), parent_id=group(4), author=group(5),
\*           author_time=group(6), committer=group(7), commit_time=group(8))
CommitOf(s) ==
    [num         |-> SubSeq(s, 2, CommitNumEnd(s) - 1),
     tree_id     |-> SubSeq(s, CommitTreeStart(s), CommitTreeEnd(s) - 1),
     parent_id   |-> IF CommitHasParent(s)
                     THEN SubSeq(s, CommitAfterTree(s) + 1, CommitParentEnd(s) - 1)
                     ELSE None,
     author      |-> SubSeq(s, CommitAuthorStart(s) + 2, CommitAuthorNameEnd(s) - 2),
     author_time |-> SubSeq(s, CommitAuthorNameEnd(s) + 1, CommitAuthorEnd(s) - 2),
     committer   |-> SubSeq(s, CommitAuthorEnd(s) + 3, CommitCommitterNameEnd(s) - 2),
     commit_time |-> SubSeq(s, CommitCommitterNameEnd(s) + 1, CommitCommitterEnd(s) - 2)]

(***************************************************************************)
(* _tree_re                                                                *)
(***************************************************************************)
\* "tree ([0-9]+)\x00100644 README\.txt" at position p: the position after it.
TreeHeadEnd(s, p) ==
    Lit(s, Lit(s, Number(s, Lit(s, p, "tree ")), "NUL"), "100644 README.txt")

TreeStarts(s) == {p \in 1..Len(s) : TreeHeadEnd(s, p) # 0}

MatchTree(s) == TreeStarts(s) # {}

\* "^.*" is greedy: the match is at the last place the rest matches.
TreeStart(s) == CHOOSE p \in TreeStarts(s) : \A q \in TreeStarts(s) : q <= p

\* GitTree(num=match.group(1), data=match.group(2), binary_data=contents)
TreeOf(s) ==
    [num         |-> SubSeq(s, TreeStart(s) + 1, DigitRunEnd(s, TreeStart(s) + 1) - 1),
     data        |-> SubSeq(s, TreeHeadEnd(s, TreeStart(s)), Len(s)),
     binary_data |-> s]

(***************************************************************************)
(* GitTree.blobId                                                          *)
(***************************************************************************)
\* A blob id is the hash in the last IdBytes bytes of a tree.
IdBytes == 20

\* bytes.hex() of one byte.
HexByte(b) ==
    CASE b = "xaa" -> <<"a", "a">>
      [] b = "xbb" -> <<"b", "b">>
      [] b = "NUL" -> <<"0", "0">>

RECURSIVE HexOf(_)
HexOf(bytes) ==
    IF bytes = <<>> THEN <<>> ELSE HexByte(Head(bytes)) \o HexOf(Tail(bytes))

\* self.binary_data[-20:].hex().  Every modelled tree ends with at least
\* IdBytes one-byte lexemes, as a git tree does (mode, name, NUL, sha1).
BlobId(tree) ==
    LET bd == tree.binary_data
        a  == IF Len(bd) > IdBytes THEN Len(bd) - IdBytes + 1 ELSE 1
    IN  HexOf(SubSeq(bd, a, Len(bd)))

\* b.startswith(p)
StartsWith(b, p) == Len(b) >= Len(p) /\ SubSeq(b, 1, Len(p)) = p

(***************************************************************************)
(* Diagnostics (the print calls that are no table row) and errors.         *)
(***************************************************************************)
Diag(kind, ids) == [kind |-> kind, ids |-> ids]

\* A slip: the message names full_id and leaves out b.
AmbiguousDiag_WithoutB(blob_id, hash, tree_id, full_id, b) ==
    [kind |-> "AmbiguousBlob", ids |-> <<blob_id, hash, tree_id, full_id, full_id>>]

\* "ERROR: Got ambiguous short blob ID ... which matches full_id and b"
AmbiguousDiag(blob_id, hash, tree_id, full_id, b) ==
    Diag("AmbiguousBlob", <<blob_id, hash, tree_id, full_id, b>>)

\* "ERROR: Blob ... not found (ref. commit ... - tree ...)"
NotFoundDiag(blob_id, hash, tree_id) == Diag("BlobNotFound", <<blob_id, hash, tree_id>>)

NoError == [kind |-> "none", dict |-> "", key |-> None]

\* An uncaught KeyError of d[key].
KeyError(dict, key) == [kind |-> "KeyError", dict |-> dict, key |-> key]

\* An uncaught zlib.error of zlib.decompress.
DecodeFailure(hash) == [kind |-> "zlib.error", dict |-> "", key |-> hash]

\* An uncaught OSError of os.listdir or open.
SourceIOFailure == [kind |-> "OSError", dict |-> "", key |-> None]

(***************************************************************************)
(* GitParser.blobForCommit                                                 *)
(***************************************************************************)
\* A slip: the first candidate is kept.
NextFullId_KeepFirst(blob_id, full_id, b) == IF full_id # blob_id THEN full_id ELSE b

\* full_id = b
NextFullId(blob_id, full_id, b) == b

\* The loop over self.blobs from key i on: the final full_id and the
\* diagnostics printed on the way.
RECURSIVE ScanBlobs(_, _, _, _, _, _)
ScanBlobs(i, blob_id, hash, tree_id, full_id, out) ==
    IF i > Len(blobs.keys) THEN [full_id |-> full_id, diags |-> out]
    ELSE LET b == blobs.keys[i] IN
         IF StartsWith(b, blob_id)
         THEN ScanBlobs(i + 1, blob_id, hash, tree_id,
                        NextFullId(blob_id, full_id, b),
                        IF full_id # blob_id
                        THEN Append(out, AmbiguousDiag(blob_id, hash, tree_id, full_id, b))
                        ELSE out)
         ELSE ScanBlobs(i + 1, blob_id, hash, tree_id, full_id, out)

\* What a call of blobForCommit ends with: the blob, or the KeyError raised,
\* and the diagnostics printed before it returned or raised.
Returned(blob_id, diags) ==
    [ok |-> TRUE, err |-> NoError, diags |-> diags,
     blob_id |-> blob_id, blob |-> Get(blobs, blob_id)]

Raised(error, diags) ==
    [ok |-> FALSE, err |-> error, diags |-> diags, blob_id |-> None, blob |-> None]

\* if blob_id not in self.blobs: full_id = blob_id; for b in self.blobs: ...
Scan(hash, tree_id, blob_id) ==
    IF Has(blobs, blob_id) THEN [full_id |-> blob_id, diags |-> <<>>]
    ELSE ScanBlobs(1, blob_id, hash, tree_id, blob_id, <<>>)

\* blob_id = full_id; the last check, and return self.blobs[blob_id].
Lookup(hash, tree_id, scan) ==
    IF Has(blobs, scan.full_id) THEN Returned(scan.full_id, scan.diags)
    ELSE Raised(KeyError("blobs", scan.full_id),
                Append(scan.diags, NotFoundDiag(scan.full_id, hash, tree_id)))

\* tree = self.trees[commit.tree_id]; blob_id = tree.blobId()
BlobOfTree(hash, tree_id) ==
    IF ~Has(trees, tree_id) THEN Raised(KeyError("trees", tree_id), <<>>)
    ELSE Lookup(hash, tree_id, Scan(hash, tree_id, BlobId(Get(trees, tree_id))))

\* commit = self.commits[hash]
BlobForCommit(hash) ==
    IF ~Has(commits, hash) THEN Raised(KeyError("commits", hash), <<>>)
    ELSE BlobOfTree(hash, Get(commits, hash).tree_id)

(***************************************************************************)
(* GitParser._buildOrderedCommit and GitParser.orderedCommits              *)
(***************************************************************************)
\* The two checks at the head of _buildOrderedCommit.
UnknownDiags(commit_id, commit_data) ==
    (IF commit_data.parent_id # None /\ ~Has(commits, commit_data.parent_id)
     THEN <<Diag("UnknownParent", <<commit_id, commit_data.parent_id>>)>> ELSE <<>>)
    \o
    (IF ~Has(trees, commit_data.tree_id)
     THEN <<Diag("UnknownTree", <<commit_id, commit_data.tree_id>>)>> ELSE <<>>)

\* original_parent_order = parent_blob.commit_order
ParentOrderOf(parent_blob) == parent_blob.commit_order

\* What a call of _buildOrderedCommit ends with: the Commit, or the error.
Built(row, diags) == [ok |-> TRUE, err |-> NoError, diags |-> diags, row |-> row]

Failed(error, diags) == [ok |-> FALSE, err |-> error, diags |-> diags, row |-> None]

\* original_parent_order = None; if commit_data.parent_id is not None: ...
ParentBlob(commit_data) ==
    IF commit_data.parent_id # None THEN BlobForCommit(commit_data.parent_id)
    ELSE [ok |-> TRUE, err |-> NoError, diags |-> <<>>, blob_id |-> None, blob |-> None]

\* return Commit(hash=..., order=int(blob.commit_order), ...)
MakeCommit(commit_id, commit_data, own, par, diags) ==
    IF ~par.ok THEN Failed(par.err, diags \o par.diags)
    ELSE Built([hash                  |-> commit_id,
                order                 |-> ToInt(own.blob.commit_order),
                original_parent_hash  |-> commit_data.parent_id,
                original_parent_order |-> IF commit_data.parent_id # None
                                          THEN ParentOrderOf(par.blob) ELSE None,
                author_time           |-> commit_data.author_time,
                commit_time           |-> commit_data.commit_time],
               diags \o par.diags)

\* blob = self.blobForCommit(commit_id), after the two checks.
GatherData(commit_id, commit_data, own, diags) ==
    IF ~own.ok THEN Failed(own.err, diags \o own.diags)
    ELSE MakeCommit(commit_id, commit_data, own, ParentBlob(commit_data),
                    diags \o own.diags)

\* The Commit of commit_id, or the error the call ends with.
BuildOrderedCommit(commit_id) ==
    GatherData(commit_id, Get(commits, commit_id), BlobForCommit(commit_id),
               UnknownDiags(commit_id, Get(commits, commit_id)))

\* A slip: a sort that is not stable, x going before the rows of its own order.
InsertByOrder_Unstable(sorted, x) ==
    LET n == Cardinality({i \in DOMAIN sorted : sorted[i].order < x.order})
    IN  SubSeq(sorted, 1, n) \o <<x>> \o SubSeq(sorted, n + 1, Len(sorted))

\* list.sort(key=order) is stable: x goes after every row whose order is not
\* greater than its own.
InsertByOrder(sorted, x) ==
    LET n == Cardinality({i \in DOMAIN sorted : sorted[i].order <= x.order})
    IN  SubSeq(sorted, 1, n) \o <<x>> \o SubSeq(sorted, n + 1, Len(sorted))

RECURSIVE SortByOrder(_)
SortByOrder(rows) ==
    IF rows = <<>> THEN <<>>
    ELSE InsertByOrder(SortByOrder(SubSeq(rows, 1, Len(rows) - 1)), rows[Len(rows)])

\* The commit ids orderedCommits maps over: the keys of self.commits.
CommitIds == commits.keys

\* map(_buildOrderedCommit, self.commits) from key i on, until a call raises.
RECURSIVE BuildAll(_, _, _)
Collect(i, rows, out, r) ==
    IF r.ok THEN BuildAll(i + 1, Append(rows, r.row), out \o r.diags)
    ELSE [ok |-> FALSE, err |-> r.err, diags |-> out \o r.diags, rows |-> <<>>]

BuildAll(i, rows, out) ==
    IF i > Len(CommitIds) THEN [ok |-> TRUE, err |-> NoError, diags |-> out, rows |-> rows]
    ELSE Collect(i, rows, out, BuildOrderedCommit(CommitIds[i]))

\* ordered_commits.sort(key=lambda commit: commit.order)
Sorted(built) == IF built.ok THEN [built EXCEPT !.rows = SortByOrder(built.rows)] ELSE built

OrderedCommits == Sorted(BuildAll(1, <<>>, <<>>))

\* Commit.__str__: the six cells of a row of the table.
Str(c) ==
    <<c.hash,
      FormatInt(c.order),
      IF c.original_parent_hash = None THEN <<"None">> ELSE c.original_parent_hash,
      IF c.original_parent_order = None THEN <<"None">> ELSE c.original_parent_order,
      c.author_time,
      c.commit_time>>

(***************************************************************************)
(* The object files the directory may hold.  Each is written as git writes *)
(* it (the formats of the comments above the three patterns), but for the  *)
(* slips named with it.                                                    *)
(***************************************************************************)
Rep(c, n) == [i \in 1..n |-> c]

\* The bytes of a lexeme.
ByteLen(x) ==
    CASE x = "blob " -> 5
      [] x = "commit " -> 7
      [] x = "tree " -> 5
      [] x = "This is the README in the " -> 26
      [] x = " commit" -> 7
      [] x = "parent " -> 7
      [] x = "author" -> 6
      [] x = "committer" -> 9
      [] x = "<> " -> 3
      [] x = " +0000" -> 6
      [] x = "commit" -> 6
      [] x = "100644 README.txt" -> 17
      [] OTHER -> 1

RECURSIVE ByteLenOf(_)
ByteLenOf(s) == IF s = <<>> THEN 0 ELSE ByteLen(Head(s)) + ByteLenOf(Tail(s))

\* The first NUL of an object: the separator that ends its header.
HeaderEnd(s) == CHOOSE i \in 1..Len(s) : s[i] = "NUL" /\ \A j \in 1..(i - 1) : s[j] # "NUL"

\* The number of bytes that follow the header separator.
PayloadLen(s) == ByteLenOf(SubSeq(s, HeaderEnd(s) + 1, Len(s)))

\* b'blob 40\x00This is the README in the 1929th commit.'
BlobBody(order, suffix) ==
    <<"This is the README in the ">> \o order \o suffix \o <<" commit", ".">>

BlobText(num, order, suffix) == <<"blob ">> \o num \o <<"NUL">> \o BlobBody(order, suffix)

\* b'tree 38\x00100644 README.txt\x00<the 20 bytes of the blob hash>'
TreeBody(byte) == <<"100644 README.txt", "NUL">> \o Rep(byte, IdBytes)

TreeText(byte) ==
    <<"tree ">> \o FormatInt(ByteLenOf(TreeBody(byte))) \o <<"NUL">> \o TreeBody(byte)

\* b'commit 187\x00tree <hash>\nparent <hash>\nauthor Ben <> 13 +0000\n
\*   committer Ben <> 13 +0000\n\ncommit\n'
CommitBody(tree, parent) ==
    <<"tree ">> \o tree \o <<"LF">>
    \o (IF parent = None THEN <<>> ELSE <<"parent ">> \o parent \o <<"LF">>)
    \o <<"author", " ", "B", "e", "n", " ", "<> ", "1", "3", " +0000", "LF">>
    \o <<"committer", " ", "B", "e", "n", " ", "<> ", "1", "4", " +0000">>
    \o <<"LF", "LF", "commit", "LF">>

CommitText(tree, parent) ==
    <<"commit ">> \o FormatInt(ByteLenOf(CommitBody(tree, parent))) \o <<"NUL">>
    \o CommitBody(tree, parent)

\* The blob ids the two modelled trees carry.
IdA == Rep("a", 2 * IdBytes)
IdB == Rep("b", 2 * IdBytes)

\* File names (directory name and file name together): three blobs whose
\* names go on after the 40 characters of IdA, one named IdB itself.
HA1 == IdA \o <<"1">>
HA2 == IdA \o <<"2">>
HA3 == IdA \o <<"3">>
HB  == IdB
HT1 == Rep("d", 2 * IdBytes - 1) \o <<"1">>
HT2 == Rep("d", 2 * IdBytes - 1) \o <<"2">>
HC1 == Rep("c", 2 * IdBytes - 1) \o <<"1">>
HC2 == Rep("c", 2 * IdBytes - 1) \o <<"2">>
HC3 == Rep("c", 2 * IdBytes - 1) \o <<"3">>
HJ  == Rep("e", 2 * IdBytes)
HZ  == Rep("f", 2 * IdBytes)

File(hash, contents) == [hash |-> hash, corrupt |-> FALSE, contents |-> contents]

Files ==
    { File(HA1, BlobText(<<"3", "7">>, <<"1">>, <<"s", "t">>)),
      \* an order written with a leading zero
      File(HA2, BlobText(<<"3", "8">>, <<"0", "2">>, <<"n", "d">>)),
      File(HA3, BlobText(<<"3", "7">>, <<"3">>, <<"r", "d">>)),
      \* a header that declares 40 bytes before a payload of 37
      File(HB, BlobText(<<"4", "0">>, <<"2">>, <<"n", "d">>)),
      File(HT1, TreeText("xaa")),
      File(HT2, TreeText("xbb")),
      File(HC1, CommitText(HT1, None)),
      File(HC2, CommitText(HT2, HC1)),
      File(HC3, CommitText(HT1, HC2)),
      \* a second file of the name HC1 (directory "c", or directory "cc")
      File(HC1, CommitText(HT2, None)),
      \* a blob whose text stops before the final character
      File(HJ, <<"blob ", "3", "6", "NUL", "This is the README in the ",
                 "1", "s", "t", " commit">>),
      \* a commit whose parent line has no hash
      File(HJ, <<"commit ", "9", "NUL", "tree ">> \o HT1
                 \o <<"LF", "parent ", "LF", "author", " ", "B", "e", "n", " ", "<> ",
                      "1", "3", " +0000", "LF", "committer", " ", "B", "e", "n", " ",
                      "<> ", "1", "4", " +0000", "LF", "LF", "commit", "LF">>),
      \* a tree header after other bytes, which "^.*" skips
      File(HT2, <<"?">> \o TreeText("xaa")),
      \* a file zlib cannot decompress
      [hash |-> HZ, corrupt |-> TRUE, contents |-> <<>>] }

(***************************************************************************)
(* GitParser.parseObject                                                   *)
(***************************************************************************)
\* The if / elif / elif / else of parseObject: the first pattern that matches.
Classify(contents) ==
    IF MatchBlob(contents) THEN "blob"
    ELSE IF MatchCommit(contents) THEN "commit"
    ELSE IF MatchTree(contents) THEN "tree"
    ELSE "unknown"

\* What parseObject takes from contents: the kind, and the object it stores.
Parsed(contents) ==
    LET kind == Classify(contents) IN
    [kind |-> kind,
     obj  |-> CASE kind = "blob" -> BlobOf(contents)
                [] kind = "commit" -> CommitOf(contents)
                [] kind = "tree" -> TreeOf(contents)
                [] OTHER -> None]

\* Parsed, tabulated once over the contents of the modelled files.
ParseTable == [c \in {f.contents : f \in Files} |-> Parsed(c)]

\* A slip: a record that matches no pattern is kept as a blob.
ParseObject_KeepsUnknown(hash, contents) ==
    LET p == ParseTable[contents] IN
    /\ blobs'   = IF p.kind = "blob" THEN Put(blobs, hash, p.obj)
                  ELSE IF p.kind = "unknown"
                  THEN Put(blobs, hash, [num |-> None, commit_order |-> None])
                  ELSE blobs
    /\ commits' = IF p.kind = "commit" THEN Put(commits, hash, p.obj) ELSE commits
    /\ trees'   = IF p.kind = "tree" THEN Put(trees, hash, p.obj) ELSE trees
    /\ diag'    = IF p.kind = "unknown"
                  THEN Append(diag, Diag("UnknownFile", <<hash>>)) ELSE diag

\* str(contents) of a bytes value always starts with b' or b", so the first
\* return of parseObject is never taken.
ParseObject(hash, contents) ==
    LET p == ParseTable[contents] IN
    /\ blobs'   = IF p.kind = "blob" THEN Put(blobs, hash, p.obj) ELSE blobs
    /\ commits' = IF p.kind = "commit" THEN Put(commits, hash, p.obj) ELSE commits
    /\ trees'   = IF p.kind = "tree" THEN Put(trees, hash, p.obj) ELSE trees
    /\ diag'    = IF p.kind = "unknown"
                  THEN Append(diag, Diag("UnknownFile", <<hash>>)) ELSE diag

(***************************************************************************)
(* The main loop.                                                          *)
(***************************************************************************)
Init ==
    /\ blobs = EmptyDict
    /\ trees = EmptyDict
    /\ commits = EmptyDict
    /\ pc = "read"
    /\ nread = 0
    /\ diag = <<>>
    /\ summary = <<>>
    /\ table = <<>>
    /\ err = NoError

\* One turn of the loop over the object files: read, decompress, parse.
ReadFile(f) ==
    /\ pc = "read"
    /\ nread < MaxRecords
    /\ nread' = nread + 1
    /\ IF f.corrupt
       THEN /\ pc' = "crashed"
            /\ err' = DecodeFailure(f.hash)
            /\ UNCHANGED <<blobs, trees, commits, diag, summary, table>>
       ELSE /\ ParseObject(f.hash, f.contents)
            /\ UNCHANGED <<pc, err, summary, table>>

\* os.listdir or open raises: the object source cannot be read.
SourceFails ==
    /\ pc = "read"
    /\ pc' = "crashed"
    /\ err' = SourceIOFailure
    /\ UNCHANGED <<blobs, trees, commits, nread, diag, summary, table>>

\* The loop is over: the line of totals and the header of the table.
PrintSummary ==
    /\ pc = "read"
    /\ pc' = "table"
    /\ summary' = <<Len(blobs.keys), Len(trees.keys), Len(commits.keys)>>
    /\ UNCHANGED <<blobs, trees, commits, nread, diag, table, err>>

\* The rows printed, or the error that ends the run, with the diagnostics.
Emitted(r) ==
    /\ diag' = diag \o r.diags
    /\ table' = r.rows
    /\ err' = r.err
    /\ pc' = IF r.ok THEN "done" ELSE "crashed"

\* for c in parser.orderedCommits(): print(c)
EmitTable ==
    /\ pc = "table"
    /\ Emitted(OrderedCommits)
    /\ UNCHANGED <<blobs, trees, commits, nread, summary>>

Next ==
    \/ \E f \in Files : ReadFile(f)
    \/ SourceFails
    \/ PrintSummary
    \/ EmitTable

Spec == Init /\ [][Next]_vars

(***************************************************************************)
(* What the claims speak of, read off the store and the output.            *)
(***************************************************************************)
CommitKeys == Range(commits.keys)

\* The place of key k in the insertion order of dict d.
Pos(d, k) == CHOOSE i \in DOMAIN d.keys : d.keys[i] = k

HasRow(h) == \E i \in DOMAIN table : table[i].hash = h

RowOf(h) == table[CHOOSE i \in DOMAIN table : table[i].hash = h]

\* The cells of the printed row of commit h.
OrderCell(h) == Str(RowOf(h))[2]
ParentOrderCell(h) == Str(RowOf(h))[4]

ParentOf(c) == Get(commits, c).parent_id

HasTree(c) == Has(trees, Get(commits, c).tree_id)

\* The blob identifier derived from the tree of commit c.
ShortId(c) == BlobId(Get(trees, Get(commits, c).tree_id))

IsPrefixOf(id) == [b \in Range(blobs.keys) |-> StartsWith(b, id)]

\* The blob keys with prefix id, in the iteration order of the mapping.
Candidates(id) == SelectSeq(blobs.keys, LAMBDA b : IsPrefixOf(id)[b])

\* The identifier of commit c is no blob key and a prefix of n blob keys.
PrefixOfN(c, n) ==
    /\ HasTree(c)
    /\ ~Has(blobs, ShortId(c))
    /\ Len(Candidates(ShortId(c))) = n

Ambiguous(c) == HasTree(c) /\ ~Has(blobs, ShortId(c)) /\ Len(Candidates(ShortId(c))) >= 2

\* The tree and the blob of commit c are found.
Resolves(c) ==
    /\ HasTree(c)
    /\ (Has(blobs, ShortId(c)) \/ Len(Candidates(ShortId(c))) >= 1)

Dangling(c) == ParentOf(c) # None /\ ~Has(commits, ParentOf(c))

\* orderedCommits was called and has returned or raised.
Attempted == pc = "done" \/ (pc = "crashed" /\ err.kind = "KeyError")

Diags == Range(diag)

(***************************************************************************)
(* C1.  Whatever store the drained object source leaves, orderedCommits    *)
(* gives exactly one record per key of commits: as many rows as commits,   *)
(* every commit hash in exactly one row.                                   *)
(***************************************************************************)
C1_OneRowPerCommit ==
    Attempted =>
        /\ Len(table) = Len(commits.keys)
        /\ \A h \in CommitKeys : Cardinality({i \in DOMAIN table : table[i].hash = h}) = 1

(***************************************************************************)
(* C2.  The returned list is sorted by order ascending, compared as        *)
(* integers; rows of equal order keep the relative place their commits     *)
(* have in the insertion order of commits; and when reconstruction ends    *)
(* with an error, the error is a failed lookup, never the sort.            *)
(***************************************************************************)
C2_SortedStable ==
    /\ pc = "done" =>
        /\ \A i \in 1..(Len(table) - 1) : table[i].order <= table[i + 1].order
        /\ \A i, j \in DOMAIN table :
              (i < j /\ table[i].order = table[j].order)
                  => Pos(commits, table[i].hash) < Pos(commits, table[j].hash)
        /\ {table[i].hash : i \in DOMAIN table} = CommitKeys
    /\ (pc = "crashed" /\ summary # <<>>) =>
        /\ err.kind = "KeyError"
        /\ err.dict = "commits" => ~Has(commits, err.key)
        /\ err.dict = "trees" => ~Has(trees, err.key)
        /\ err.dict = "blobs" => ~Has(blobs, err.key)

\* A table with a tie, and with two commits that left their insertion order.
C2_Witness ==
    /\ pc = "done"
    /\ \E i, j \in DOMAIN table : i < j /\ table[i].order = table[j].order
    /\ \E i, j \in DOMAIN table :
          /\ i < j /\ table[i].order < table[j].order
          /\ Pos(commits, table[i].hash) > Pos(commits, table[j].hash)

(***************************************************************************)
(* C3.  For every commit whose parent is a key of commits, the ParentOrder *)
(* of its row equals the Order of the row of the parent.                   *)
(***************************************************************************)
C3_ParentOrderIsOrder ==
    pc = "done" =>
        \A c \in CommitKeys :
            (ParentOf(c) # None /\ Has(commits, ParentOf(c)))
                => ParentOrderCell(c) = OrderCell(ParentOf(c))

(***************************************************************************)
(* C4.  A commit whose parent hash is no key of commits: a diagnostic      *)
(* names it, and it still has a row, with ParentOrder None and with its    *)
(* own Order from its own tree and blob.                                   *)
(***************************************************************************)
C4_DanglingParentRow ==
    Attempted =>
        \A c \in CommitKeys :
            (Dangling(c) /\ Resolves(c)) =>
                /\ Diag("UnknownParent", <<c, ParentOf(c)>>) \in Diags
                /\ HasRow(c)
                /\ ParentOrderCell(c) = <<"None">>
                /\ \E b \in Range(blobs.val) : RowOf(c).order = ToInt(b.commit_order)

(***************************************************************************)
(* C5.  A commit whose blob identifier is no blob key and the prefix of    *)
(* none: an error names the commit, its tree and the identifier, and the   *)
(* commit still has a row, whose Order is None.                            *)
(***************************************************************************)
C5_UnresolvedBlobRow ==
    Attempted =>
        \A c \in CommitKeys :
            PrefixOfN(c, 0) =>
                /\ NotFoundDiag(ShortId(c), c, Get(commits, c).tree_id) \in Diags
                /\ HasRow(c)
                /\ OrderCell(c) = <<"None">>

(***************************************************************************)
(* C6.  An identifier that is no blob key and the prefix of two or more:   *)
(* one diagnostic names every one of the matching keys, and the commit     *)
(* has a row.                                                              *)
(***************************************************************************)
AmbiguousDiagsOf(c) == {d \in Diags : d.kind = "AmbiguousBlob" /\ d.ids[2] = c}

\* The full hashes a diagnostic names.
Named(d) == {d.ids[4], d.ids[5]}

C6_OneDiagNamesAll ==
    pc = "done" =>
        \A c \in CommitKeys :
            Ambiguous(c) =>
                /\ \E d \in AmbiguousDiagsOf(c) : Range(Candidates(ShortId(c))) \subseteq Named(d)
                /\ HasRow(c)

(***************************************************************************)
(* C6, amended.  The diagnostics of the commit name every matching key     *)
(* between them, each one naming two keys that follow each other among the *)
(* candidates; the resolution returns a blob, so the commit has a row in   *)
(* every table that is printed, and a lookup of a blob that fails is never *)
(* one of an identifier with a candidate.                                  *)
(***************************************************************************)
C6_DiagsNameAll ==
    /\ pc = "done" =>
        \A c \in CommitKeys :
            Ambiguous(c) =>
                LET cand == Candidates(ShortId(c)) IN
                /\ \A m \in Range(cand) : \E d \in AmbiguousDiagsOf(c) : m \in Named(d)
                /\ \A d \in AmbiguousDiagsOf(c) :
                      \E i \in 1..(Len(cand) - 1) : d.ids[4] = cand[i] /\ d.ids[5] = cand[i + 1]
                /\ HasRow(c)
    /\ (pc = "crashed" /\ err.kind = "KeyError" /\ err.dict = "blobs")
           => Candidates(err.key) = <<>>

\* A printed table with a commit whose identifier has three candidates.
C6_Witness == pc = "done" /\ \E c \in CommitKeys : PrefixOfN(c, 3)

(***************************************************************************)
(* C7.  Unless the object source cannot be read, the run reaches the       *)
(* table: no other failure ends it.                                        *)
(***************************************************************************)
C7_OnlySourceFailureEndsRun == pc = "crashed" => err = SourceIOFailure

(***************************************************************************)
(* C8.  Of every record parseObject stores, the declared size equals the   *)
(* number of bytes that follow the header separator.                       *)
(***************************************************************************)
\* Which of the three patterns the contents of each file match.
Matches ==
    [f \in Files |->
        IF f.corrupt THEN [blob |-> FALSE, commit |-> FALSE, tree |-> FALSE]
        ELSE [blob   |-> MatchBlob(f.contents),
              commit |-> MatchCommit(f.contents),
              tree   |-> MatchTree(f.contents)]]

Accepted(f) == Matches[f].blob \/ Matches[f].commit \/ Matches[f].tree

\* What the store holds for file f after it is read.
StoredNext(f) ==
    CASE Matches[f].blob -> Get(blobs', f.hash)
      [] Matches[f].commit -> Get(commits', f.hash)
      [] Matches[f].tree -> Get(trees', f.hash)

\* The digits that end at the first NUL.
HeaderDigits(s) ==
    LET e == HeaderEnd(s)
        a == CHOOSE i \in 1..e : /\ \A j \in i..(e - 1) : IsDigit(s[j])
                                 /\ (i = 1 \/ ~IsDigit(s[i - 1]))
    IN  SubSeq(s, a, e - 1)

\* Of each accepted file, the size its header declares and the bytes of
\* its payload.
Sizes ==
    [f \in {g \in Files : Accepted(g)} |->
        [declared |-> HeaderDigits(f.contents), payload |-> PayloadLen(f.contents)]]

C8_SizeIsPayloadLength ==
    [][\A f \in Files :
          (ReadFile(f) /\ Accepted(f))
              => ToInt(StoredNext(f).num) = Sizes[f].payload]_vars

(***************************************************************************)
(* C8, amended.  Of every record parseObject stores, num is the decimal    *)
(* text of the header, as written, between the kind and the separator; it  *)
(* is not compared with the payload, and a record whose declared size      *)
(* differs from its payload length is stored like any other.               *)
(***************************************************************************)
C8_NumIsHeaderText ==
    [][\A f \in Files :
          (ReadFile(f) /\ Accepted(f)) => StoredNext(f).num = Sizes[f].declared]_vars

\* A stored blob whose header declares 40 bytes before a payload of 37.
C8_Witness == Has(blobs, HB) /\ Get(blobs, HB).num = <<"4", "0">>

(***************************************************************************)
(* C9.  A record that matches none of the three patterns leaves blobs,     *)
(* trees and commits as they are and is only logged; a record that matches *)
(* goes into one mapping, the first of blob, commit, tree whose pattern    *)
(* matches, and leaves the other two as they are.                          *)
(***************************************************************************)
C9_ParseFrame ==
    [][\A f \in Files :
          (ReadFile(f) /\ ~f.corrupt) =>
              LET m == Matches[f] IN
              /\ (~m.blob /\ ~m.commit /\ ~m.tree) =>
                    /\ UNCHANGED <<blobs, trees, commits>>
                    /\ diag' = Append(diag, Diag("UnknownFile", <<f.hash>>))
              /\ m.blob =>
                    /\ Has(blobs', f.hash) /\ UNCHANGED <<trees, commits, diag>>
                    /\ \A k \in Range(blobs.keys) \ {f.hash} : Get(blobs', k) = Get(blobs, k)
              /\ (~m.blob /\ m.commit) =>
                    /\ Has(commits', f.hash) /\ UNCHANGED <<blobs, trees, diag>>
                    /\ \A k \in CommitKeys \ {f.hash} : Get(commits', k) = Get(commits, k)
              /\ (~m.blob /\ ~m.commit /\ m.tree) =>
                    /\ Has(trees', f.hash) /\ UNCHANGED <<blobs, commits, diag>>
                    /\ \A k \in Range(trees.keys) \ {f.hash} : Get(trees', k) = Get(trees, k)]_vars

\* Both unmatched files were read into a store that holds all three kinds.
C9_Witness ==
    /\ Len(diag) >= 2
    /\ blobs.keys # <<>> /\ trees.keys # <<>> /\ commits.keys # <<>>

(***************************************************************************)
(* C10.  Of several blob keys with the identifier as prefix, blobForCommit *)
(* returns the blob of the first in the iteration order of blobs.          *)
(***************************************************************************)
FirstCandidate(c) == Candidates(ShortId(c))[1]

LastCandidate(c) == Candidates(ShortId(c))[Len(Candidates(ShortId(c)))]

C10_FirstCandidate ==
    pc = "done" =>
        \A c \in CommitKeys :
            Ambiguous(c) => RowOf(c).order = ToInt(Get(blobs, FirstCandidate(c)).commit_order)

(***************************************************************************)
(* C10, amended.  blobForCommit returns the blob of the last matching key  *)
(* in the iteration order of blobs, each time the store is resolved: as    *)
(* the blob of the commit, and as the blob of the parent of another.       *)
(***************************************************************************)
C10_LastCandidate ==
    pc = "done" =>
        \A c \in CommitKeys :
            Ambiguous(c) =>
                /\ RowOf(c).order = ToInt(Get(blobs, LastCandidate(c)).commit_order)
                /\ \A k \in CommitKeys :
                      ParentOf(k) = c
                          => RowOf(k).original_parent_order
                                 = Get(blobs, LastCandidate(c)).commit_order

\* An ambiguous commit, parent of another, whose first and last candidate
\* carry different orders.
C10_Witness ==
    /\ pc = "done"
    /\ \E c \in CommitKeys :
          /\ Ambiguous(c)
          /\ \E k \in CommitKeys : ParentOf(k) = c
          /\ ToInt(Get(blobs, FirstCandidate(c)).commit_order)
                 # ToInt(Get(blobs, LastCandidate(c)).commit_order)

====
